---- MODULE Spec2Model ----
(***************************************************************************)
(* Model of src/QR_on_stream.py: the "Generate PDF" handler of the          *)
(* Streamlit page (lines 98-176).  One behaviour is one click of the        *)
(* button with both files uploaded: the widgets' values and the uploaded    *)
(* files are fixed in Init, and every action is one statement group of the  *)
(* handler.  External collaborators (pandas, qrcode, reportlab, PyPDF2, the *)
(* file system) may raise at the calls where the handler uses them.         *)
(***************************************************************************)
EXTENDS Integers, Sequences, FiniteSets, TLC

\* ------------------------------------------------------------------ bounds
MaxPages == 2
MaxRows == 2

\* --------------------------------------------------- input value samples
\* Page widths of the uploaded PDF (points): one narrower than a QR code
\* plus its offset, and US letter.
Widths == {100, 612}
\* Cell values of the CSV's URL column.
URLs == {"https://a.com", "https://b.com"}
\* Header rows of the uploaded CSV: with and without a column named "URL".
ColumnSets == {{"URL", "id"}, {"url", "id"}}
\* Sidebar widgets (lines 55-88); every sample lies in the widget's range.
Anchors == {"From Right Edge", "From Left Edge"}
XInputs == {0, 40}
YPositions == {0, 83}
QrSizes == {35, 70}
CaptionTexts == {"", "Scan your custom QR code to enroll"}
FontSizes == {7}

VARIABLES
    pc,             \* position of the handler
    h_anchor, x_input, y_position, qr_size,          \* sidebar: position, size
    show_text, custom_text, text_font_size,          \* sidebar: text settings
    uploaded_csv,   \* [columns, urls]: header names and the rows' URL cells
    uploaded_pdf,   \* sequence of page widths of the uploaded PDF
    temp_dir,       \* TRUE while the directory made by mkdtemp exists
    files,          \* files under temp_dir/qr_temp: set of [path, data]
    df,             \* the parsed CSV, <<>> before read_csv returns
    reader,         \* the PdfReader's pages (merge_page changes them in place)
    opened,         \* TRUE once PdfReader(uploaded_pdf) has been called
    total_pages,
    writer,         \* pages added to the PdfWriter, in order
    i,              \* loop variable
    progress_bar,   \* values passed to st.progress / progress_bar.progress
    messages,       \* st.error / st.warning / st.success calls, in order
    download,       \* buffers handed to st.download_button, in order
    output_buffer,  \* pages serialized by writer.write
    exc,            \* the exception in flight, "" when none
    rowsRead,       \* row indices looked up with df.iloc
    pagesRead       \* page indices looked up with reader.pages

vars == <<pc, h_anchor, x_input, y_position, qr_size, show_text, custom_text,
          text_font_size, uploaded_csv, uploaded_pdf, temp_dir, files, df,
          reader, opened, total_pages, writer, i, progress_bar, messages,
          download, output_buffer, exc, rowsRead, pagesRead>>

inputs == <<h_anchor, x_input, y_position, qr_size, show_text, custom_text,
            text_font_size, uploaded_csv, uploaded_pdf>>

\* ----------------------------------------------------------------- helpers
SeqsUpTo(S, n) == UNION {[1..k -> S] : k \in 0..n}

\* A page of the uploaded PDF: its zero-based index, its mediabox width and
\* the overlays merged onto it so far.
Page(index, width) == [index |-> index, width |-> width, overlays |-> <<>>]

\* PdfReader(uploaded_pdf).pages
PdfReader(pdf) == [k \in 1..Len(pdf) |-> Page(k - 1, pdf[k])]

\* pd.read_csv(uploaded_csv)
read_csv(csv) == [columns |-> csv.columns, rows |-> csv.urls]

\* len(df)
LenDf(d) == Len(d.rows)

\* A check that also accepts a lower-case header (the fix the comment on
\* line 107 calls optional).
HasURLColumn_AnyCase(d) == \E c \in d.columns : c \in {"URL", "url"}

\* "URL" not in df.columns is the negation of this (line 108).
HasURLColumn(d) == "URL" \in d.columns

\* The break taken one index late.
LoopBreak_OffByOne(idx, d) == idx > LenDf(d)

\* `if i >= len(df): break` (line 119)
LoopBreak(idx, d) == idx >= LenDf(d)

\* The lookup with the loop index dropped: every page gets the first row.
iloc_FirstRow(d, idx) == d.rows[1]

\* df.iloc[i]["URL"] (line 121), for a row and a column that exist
iloc(d, idx) == d.rows[idx + 1]

\* qrcode.make(url): the image is known by the payload it encodes.
qrcode_make(url) == [payload |-> url]

\* os.path.join(qr_folder, f"qr_{i}.png") and f"overlay_{i}.pdf"
qr_path(idx) == <<"qr", idx>>
overlay_pdf(idx) == <<"overlay", idx>>

\* Writing a file replaces what the path held; reading returns its data.
WriteFile(fs, path, data) ==
    {f \in fs : f.path # path} \cup {[path |-> path, data |-> data]}
ReadFile(fs, path) == (CHOOSE f \in fs : f.path = path).data

\* Placement clamped to the page's left edge.
PlacementX_Clamped(anchor, page_width, size, offset) ==
    IF anchor = "From Right Edge"
    THEN (IF page_width - size - offset < 0 THEN 0
          ELSE page_width - size - offset)
    ELSE offset

\* Position Logic (lines 133-140)
PlacementX(anchor, page_width, size, offset) ==
    IF anchor = "From Right Edge" THEN page_width - size - offset ELSE offset
PlacementY(ypos) == ypos

\* The caption (lines 145-147): drawn only when show_text and custom_text are
\* both truthy, centred at x + qr_size / 2.  The centre is kept doubled (cx2)
\* so that an odd qr_size loses nothing.
Caption(show, text, font, x, y, size) ==
    IF show /\ text # ""
    THEN <<[text |-> text, font |-> font, cx2 |-> 2 * x + size, y |-> y - 10]>>
    ELSE <<>>

\* The canvas after drawImage, the optional drawCentredString and save
\* (lines 130, 143-149): one letter-size page.
Canvas(image, x, y, size, caption) ==
    [image |-> image, x |-> x, y |-> y, width |-> size, height |-> size,
     caption |-> caption]

\* base_page.merge_page(overlay_page) (line 154)
merge_page(base, overlay) ==
    [base EXCEPT !.overlays = Append(@, overlay)]

\* The fraction taken from the zero-based index.
ProgressValue_ZeroBased(idx, total) == <<idx, total>>

\* (i + 1) / total_pages (line 157), kept as <<numerator, denominator>>.
ProgressValue(idx, total) == <<idx + 1, total>>

\* An except clause narrowed to one exception class.
IsException_OnlyValueError(e) == e = "ValueError"

\* `except Exception` (line 175) catches what derives from Exception;
\* st.stop() raises Streamlit's StopException, which derives from
\* BaseException and passes through.
IsException(e) == e # "StopException"

Error(text) == [kind |-> "error", text |-> text]
Success(text) == [kind |-> "success", text |-> text]
MissingColumnText == <<"CSV must contain a column named 'URL'!">>
ExceptText(e) == <<"Error: ", e>>
SuccessText == <<"PDF Generated Successfully!">>

\* ------------------------------------------------------------------- Init
Init ==
    /\ pc = "mkdtemp"
    /\ h_anchor \in Anchors
    /\ x_input \in XInputs
    /\ y_position \in YPositions
    /\ qr_size \in QrSizes
    /\ show_text \in BOOLEAN
    /\ custom_text \in CaptionTexts
    /\ text_font_size \in FontSizes
    /\ uploaded_csv \in [columns : ColumnSets, urls : SeqsUpTo(URLs, MaxRows)]
    /\ uploaded_pdf \in SeqsUpTo(Widths, MaxPages)
    /\ temp_dir = FALSE
    /\ files = {}
    /\ df = [columns |-> {}, rows |-> <<>>]
    /\ reader = <<>>
    /\ opened = FALSE
    /\ total_pages = 0
    /\ writer = <<>>
    /\ i = 0
    /\ progress_bar = <<>>
    /\ messages = <<>>
    /\ download = <<>>
    /\ output_buffer = <<>>
    /\ exc = ""
    /\ rowsRead = {}
    /\ pagesRead = {}

\* ---------------------------------------------------------------- actions
\* A statement raises: control leaves the try body for the except clause.
Raise(e) == pc' = "raise" /\ exc' = e

\* lines 102-104: tempfile.mkdtemp(), os.makedirs(qr_folder)
MakeTempDir ==
    /\ pc = "mkdtemp"
    /\ \/ temp_dir' = TRUE /\ pc' = "read_csv" /\ exc' = exc
       \/ temp_dir' = temp_dir /\ Raise("OSError")
    /\ UNCHANGED <<inputs, files, df, reader, opened, total_pages, writer, i,
                   progress_bar, messages, download, output_buffer, rowsRead,
                   pagesRead>>

\* line 106: df = pd.read_csv(uploaded_csv)
ReadCsv ==
    /\ pc = "read_csv"
    /\ \/ df' = read_csv(uploaded_csv) /\ pc' = "check_url" /\ exc' = exc
       \/ df' = df /\ Raise("ParserError")
    /\ UNCHANGED <<inputs, temp_dir, files, reader, opened, total_pages,
                   writer, i, progress_bar, messages, download, output_buffer,
                   rowsRead, pagesRead>>

\* lines 108-110: the URL column check; st.error then st.stop()
CheckURL ==
    /\ pc = "check_url"
    /\ IF ~HasURLColumn(df)
       THEN /\ messages' = Append(messages, Error(MissingColumnText))
            /\ Raise("StopException")
       ELSE /\ messages' = messages
            /\ pc' = "open_pdf"
            /\ exc' = exc
    /\ UNCHANGED <<inputs, temp_dir, files, df, reader, opened, total_pages,
                   writer, i, progress_bar, download, output_buffer, rowsRead,
                   pagesRead>>

\* lines 112-116: PdfReader, PdfWriter, total_pages, st.progress(0)
OpenPdf ==
    /\ pc = "open_pdf"
    /\ opened' = TRUE
    /\ \/ /\ reader' = PdfReader(uploaded_pdf)
          /\ writer' = <<>>
          /\ total_pages' = Len(reader')
          /\ progress_bar' = Append(progress_bar, <<0, 1>>)
          /\ pc' = "loop"
          /\ exc' = exc
       \/ /\ Raise("PdfReadError")
          /\ UNCHANGED <<reader, writer, total_pages, progress_bar>>
    /\ UNCHANGED <<inputs, temp_dir, files, df, i, messages, download,
                   output_buffer, rowsRead, pagesRead>>

\* lines 118-119: `for i in range(total_pages)` and the break.  i is
\* advanced by Progress, so here it is the index range() yields next.
LoopHead ==
    /\ pc = "loop"
    /\ pc' = IF i >= total_pages THEN "output"
             ELSE IF LoopBreak(i, df) THEN "output"
             ELSE "gen_qr"
    /\ UNCHANGED <<inputs, temp_dir, files, df, reader, opened, total_pages,
                   writer, i, progress_bar, messages, download, output_buffer,
                   exc, rowsRead, pagesRead>>

\* lines 121-126: url = df.iloc[i]["URL"]; qrcode.make(url); qr.save(qr_path)
GenerateQR ==
    /\ pc = "gen_qr"
    /\ IF i >= LenDf(df)
       THEN Raise("IndexError") /\ UNCHANGED <<files, rowsRead>>
       ELSE IF ~("URL" \in df.columns)
       THEN Raise("KeyError") /\ UNCHANGED <<files, rowsRead>>
       ELSE /\ rowsRead' = rowsRead \cup {i}
            /\ LET url == iloc(df, i)
                   qr == qrcode_make(url)
               IN  \/ /\ files' = WriteFile(files, qr_path(i), qr)
                      /\ pc' = "overlay"
                      /\ exc' = exc
                   \/ /\ files' = files
                      /\ Raise("QRError")
    /\ UNCHANGED <<inputs, temp_dir, df, reader, opened, total_pages, writer,
                   i, progress_bar, messages, download, output_buffer,
                   pagesRead>>

\* lines 129-149: the overlay canvas, Position Logic, drawImage, caption, save
CreateOverlay ==
    /\ pc = "overlay"
    /\ pagesRead' = pagesRead \cup {i}
    /\ LET page_width == reader[i + 1].width
           x == PlacementX(h_anchor, page_width, qr_size, x_input)
           y == PlacementY(y_position)
           c == Canvas(ReadFile(files, qr_path(i)), x, y, qr_size,
                       Caption(show_text, custom_text, text_font_size,
                               x, y, qr_size))
       IN  \/ /\ files' = WriteFile(files, overlay_pdf(i), c)
              /\ pc' = "merge"
              /\ exc' = exc
           \/ /\ files' = files
              /\ Raise("DrawError")
    /\ UNCHANGED <<inputs, temp_dir, df, reader, opened, total_pages, writer,
                   i, progress_bar, messages, download, output_buffer,
                   rowsRead>>

\* lines 152-155: merge the overlay onto reader.pages[i], writer.add_page
Merge ==
    /\ pc = "merge"
    /\ LET base_page == reader[i + 1]
           overlay_page == ReadFile(files, overlay_pdf(i))
           merged == merge_page(base_page, overlay_page)
       IN  \/ /\ reader' = [reader EXCEPT ![i + 1] = merged]
              /\ writer' = Append(writer, merged)
              /\ pc' = "progress"
              /\ exc' = exc
           \/ /\ UNCHANGED <<reader, writer>>
              /\ Raise("MergeError")
    /\ UNCHANGED <<inputs, temp_dir, files, df, opened, total_pages, i,
                   progress_bar, messages, download, output_buffer, rowsRead,
                   pagesRead>>

\* line 157: progress_bar.progress((i + 1) / total_pages); then range()
\* yields the next index.
Progress ==
    /\ pc = "progress"
    /\ IF total_pages = 0
       THEN Raise("ZeroDivisionError") /\ UNCHANGED <<progress_bar, i>>
       ELSE /\ progress_bar' = Append(progress_bar, ProgressValue(i, total_pages))
            /\ i' = i + 1
            /\ pc' = "loop"
            /\ exc' = exc
    /\ UNCHANGED <<inputs, temp_dir, files, df, reader, opened, total_pages,
                   writer, messages, download, output_buffer, rowsRead,
                   pagesRead>>

\* lines 160-162: writer.write(output_buffer); seek(0)
Output ==
    /\ pc = "output"
    /\ \/ output_buffer' = writer /\ pc' = "rmtree" /\ exc' = exc
       \/ output_buffer' = output_buffer /\ Raise("WriteError")
    /\ UNCHANGED <<inputs, temp_dir, files, df, reader, opened, total_pages,
                   writer, i, progress_bar, messages, download, rowsRead,
                   pagesRead>>

\* line 163: shutil.rmtree(temp_dir)
RemoveTree ==
    /\ pc = "rmtree"
    /\ \/ temp_dir' = FALSE /\ files' = {} /\ pc' = "success" /\ exc' = exc
       \/ UNCHANGED <<temp_dir, files>> /\ Raise("OSError")
    /\ UNCHANGED <<inputs, df, reader, opened, total_pages, writer, i,
                   progress_bar, messages, download, output_buffer, rowsRead,
                   pagesRead>>

\* line 165: st.success
ShowSuccess ==
    /\ pc = "success"
    /\ messages' = Append(messages, Success(SuccessText))
    /\ pc' = "download"
    /\ UNCHANGED <<inputs, temp_dir, files, df, reader, opened, total_pages,
                   writer, i, progress_bar, download, output_buffer, exc,
                   rowsRead, pagesRead>>

\* lines 167-173: st.download_button(data=output_buffer); the handler ends
DownloadButton ==
    /\ pc = "download"
    /\ download' = Append(download, output_buffer)
    /\ pc' = "completed"
    /\ UNCHANGED <<inputs, temp_dir, files, df, reader, opened, total_pages,
                   writer, i, progress_bar, messages, output_buffer, exc,
                   rowsRead, pagesRead>>

\* lines 175-176: `except Exception as e: st.error(f"Error: {e}")`; what the
\* clause does not catch leaves the handler and ends the script run.
Except ==
    /\ pc = "raise"
    /\ IF IsException(exc)
       THEN /\ messages' = Append(messages, Error(ExceptText(exc)))
            /\ pc' = "failed"
       ELSE /\ messages' = messages
            /\ pc' = "stopped"
    /\ UNCHANGED <<inputs, temp_dir, files, df, reader, opened, total_pages,
                   writer, i, progress_bar, download, output_buffer, exc,
                   rowsRead, pagesRead>>

Next ==
    \/ MakeTempDir
    \/ ReadCsv
    \/ CheckURL
    \/ OpenPdf
    \/ LoopHead
    \/ GenerateQR
    \/ CreateOverlay
    \/ Merge
    \/ Progress
    \/ Output
    \/ RemoveTree
    \/ ShowSuccess
    \/ DownloadButton
    \/ Except

Spec == Init /\ [][Next]_vars

\* The handler has returned (or was left by an uncaught exception).
Ended == pc \in {"completed", "failed", "stopped"}
Completed == pc = "completed"
P == Len(uploaded_pdf)
R == Len(uploaded_csv.urls)

\* Whether the uploaded CSV lacks a column named exactly "URL".
MissingColumn == ~("URL" \in uploaded_csv.columns)
Min(a, b) == IF a < b THEN a ELSE b
Kinds == {messages[m].kind : m \in 1..Len(messages)}
\* Input page k (zero-based) as uploaded, with nothing merged onto it.
InputPage(k) == [index |-> k, width |-> uploaded_pdf[k + 1], overlays |-> <<>>]
\* The x coordinate the handler is meant to use for a page of width w.
ExpectedX(w) ==
    IF h_anchor = "From Right Edge" THEN w - qr_size - x_input ELSE x_input

\* ------------------------------------------------------------------ claims

\* C1: whenever a run completes without a processing failure, the document
\* offered for download has as many pages as the uploaded PDF, whatever the
\* row count.
C1_PageCountPreserved ==
    Completed => (Len(download) = 1 /\ Len(download[1]) = P)

\* C2: on every exit path (completion, abort for a missing "URL" column,
\* abort on a raised failure) the temporary directory and every file in it
\* are gone when the run ends.
C2_TempDirRemoved ==
    Ended => (~temp_dir /\ files = {})

\* C3: a CSV without a column named exactly "URL" aborts the run with the
\* column error, once, before the PDF is opened: no page is read, no QR file
\* written, no page appended, no progress reported, no success shown and no
\* download offered.
C3_MissingColumnAborts ==
    MissingColumn =>
        /\ ~opened
        /\ pagesRead = {} /\ rowsRead = {}
        /\ files = {}
        /\ writer = <<>>
        /\ progress_bar = <<>>
        /\ download = <<>>
        /\ ~("success" \in Kinds)
        /\ pc \in {"mkdtemp", "read_csv", "check_url", "raise", "failed",
                   "stopped"}
        /\ (df = read_csv(uploaded_csv) /\ pc \in {"raise", "failed", "stopped"})
               => (exc = "StopException"
                   /\ messages = <<Error(MissingColumnText)>>
                   /\ pc # "failed")

C3_Witness ==
    /\ MissingColumn
    /\ P > 0 /\ R > 0
    /\ pc = "stopped"
    /\ messages = <<Error(MissingColumnText)>>

\* C4: with fewer rows than pages the run completes and every page with
\* index >= R is in the output at its own position, unchanged.
C4_UnmatchedPagesKept ==
    (Completed /\ R < P) =>
        /\ Len(download) = 1
        /\ \A k \in R..(P - 1) :
               /\ Len(download[1]) > k
               /\ download[1][k + 1] = InputPage(k)

\* C5: with at least as many rows as pages, the completed output is, in
\* input order, each input page merged with exactly one overlay whose QR
\* encodes the URL of the row with the same index, placed at the coordinates
\* computed from that page's width; rows with index >= P are never looked up.
C5_RowPairsWithPage ==
    (R >= P) =>
        /\ rowsRead \subseteq 0..(P - 1)
        /\ Completed =>
              /\ Len(download) = 1
              /\ Len(download[1]) = P
              /\ rowsRead = 0..(P - 1)
              /\ \A k \in 0..(P - 1) :
                    LET pg == download[1][k + 1] IN
                    /\ pg.index = k
                    /\ pg.width = uploaded_pdf[k + 1]
                    /\ Len(pg.overlays) = 1
                    /\ pg.overlays[1].image.payload = uploaded_csv.urls[k + 1]
                    /\ pg.overlays[1].x = ExpectedX(uploaded_pdf[k + 1])
                    /\ pg.overlays[1].y = y_position

C5_Witness ==
    /\ Completed
    /\ R > P /\ P >= 1
    /\ Len(download[1]) = P
    /\ download[1][1].overlays[1].image.payload = uploaded_csv.urls[1]

\* The overlays drawn so far: those saved under qr_temp and those merged
\* onto pages of the writer, each with the width of the page it is for.
DrawnOverlays ==
    {[w |-> uploaded_pdf[f.path[2] + 1], ov |-> f.data] :
        f \in {g \in files : g.path[1] = "overlay"}}
    \cup
    UNION {{[w |-> writer[k].width, ov |-> writer[k].overlays[n]] :
               n \in 1..Len(writer[k].overlays)} : k \in 1..Len(writer)}

\* C6: every overlay is placed without clamping: from the right edge
\* x = page_width - qr_size - offset (negative when the page is narrower than
\* qr_size + offset), from the left edge x = offset whatever the width, and
\* y = y_position; width 612, size 70, offset 40, y 83 gives (502, 83).
C6_PlacementUnclamped ==
    \A d \in DrawnOverlays :
        /\ h_anchor = "From Right Edge" => d.ov.x = d.w - qr_size - x_input
        /\ (h_anchor = "From Right Edge" /\ d.w < qr_size + x_input)
               => d.ov.x < 0
        /\ h_anchor = "From Left Edge" => d.ov.x = x_input
        /\ d.ov.y = y_position
        /\ d.ov.width = qr_size /\ d.ov.height = qr_size
        /\ (h_anchor = "From Right Edge" /\ d.w = 612 /\ qr_size = 70
            /\ x_input = 40 /\ y_position = 83)
               => (d.ov.x = 502 /\ d.ov.y = 83)

C6_Witness ==
    /\ h_anchor = "From Right Edge"
    /\ \E a, b \in 1..Len(writer) :
          /\ writer[a].overlays[1].x < 0
          /\ writer[b].overlays[1].x = 502
          /\ writer[b].overlays[1].y = 83

\* C7: when the row count differs from the page count and nothing fails, the
\* run completes and a row-count-mismatch warning accompanies the download.
C7_MismatchWarned ==
    (Completed /\ R # P) => ("warning" \in Kinds)

\* Failures raised by the steps of one pair's processing.
PairErrors == {"QRError", "DrawError", "MergeError"}

\* C8: a failure in a step of pair i aborts the batch there: no later pair
\* is touched, the failure's message is reported last, no success is shown
\* and nothing is offered for download; and no run has both an error
\* reported and a download offered.
C8_FailureAbortsBatch ==
    /\ ~("error" \in Kinds /\ download # <<>>)
    /\ (exc \in PairErrors) =>
          /\ pc \in {"raise", "failed"}
          /\ rowsRead \subseteq 0..i
          /\ pagesRead \subseteq 0..i
          /\ \A f \in files : f.path[2] <= i
          /\ Len(writer) <= i + 1
          /\ ~("success" \in Kinds)
          /\ download = <<>>
    /\ (exc \in PairErrors /\ Ended) =>
          /\ pc = "failed"
          /\ messages = <<Error(<<"Error: ", exc>>)>>

C8_Witness ==
    /\ pc = "failed"
    /\ exc = "MergeError"
    /\ i = 1
    /\ Len(writer) = 1
    /\ download = <<>>
    /\ messages = <<Error(<<"Error: ", "MergeError">>)>>

\* C9: the loop stops at the first index without a CSV row: no row or page
\* with index >= min(P, R) is looked up, drawn or appended, every page of the
\* writer carries exactly one overlay, and a completed output is exactly the
\* first min(P, R) input pages in order, each with its own overlay.
C9_StopsAtFirstMissingRow ==
    /\ exc # "IndexError"
    /\ rowsRead \subseteq 0..(Min(P, R) - 1)
    /\ pagesRead \subseteq 0..(Min(P, R) - 1)
    /\ \A f \in files : f.path[2] < Min(P, R)
    /\ Len(writer) <= Min(P, R)
    /\ \A k \in 1..Len(writer) :
          /\ writer[k].index = k - 1
          /\ Len(writer[k].overlays) = 1
    /\ Completed =>
          /\ Len(download) = 1
          /\ Len(download[1]) = Min(P, R)
          /\ \A k \in 1..Min(P, R) :
                /\ download[1][k].index = k - 1
                /\ Len(download[1][k].overlays) = 1
                /\ download[1][k].overlays[1].image.payload
                       = uploaded_csv.urls[k]

C9_Witness ==
    /\ Completed
    /\ R < P /\ R >= 1
    /\ Len(download[1]) = R
    /\ pagesRead = 0..(R - 1)

\* Whether some per-pair report has the value 1.
OneReported ==
    \E k \in 2..Len(progress_bar) : progress_bar[k][1] = progress_bar[k][2]

\* C10: after the initial 0, the k-th report is k / total_pages and follows
\* the append of pair k-1's page; the reports are strictly increasing within
\* [0,1]; nothing is divided by zero; and 1 is reported exactly when the last
\* page has been processed.
C10_ProgressReports ==
    /\ exc # "ZeroDivisionError"
    /\ Len(progress_bar) >= 1 => progress_bar[1] = <<0, 1>>
    /\ \A k \in 2..Len(progress_bar) :
          /\ progress_bar[k] = <<k - 1, P>>
          /\ Len(writer) >= k - 1
          /\ progress_bar[k][2] > 0
          /\ 0 <= progress_bar[k][1] /\ progress_bar[k][1] <= progress_bar[k][2]
    /\ Len(writer) <= Len(progress_bar)
    /\ \A k, l \in 1..Len(progress_bar) :
          k < l => progress_bar[k][1] * progress_bar[l][2]
                     < progress_bar[l][1] * progress_bar[k][2]
    /\ P = 0 => Len(progress_bar) <= 1
    /\ OneReported <=> (P > 0 /\ Len(writer) = P /\ pc # "progress")

C10_Witness ==
    /\ Completed
    /\ P = 2
    /\ progress_bar = <<<<0, 1>>, <<1, 2>>, <<2, 2>>>>
====
